---- MODULE Spec2Model ----
(***************************************************************************)
(* Solar node (esp32_sensor/monitor.py, esp32_sensor/ble_client.py) and    *)
(* hub (pizero/server.py): valve control, persisted state, the telemetry   *)
(* publish and the command drain between the two devices.                  *)
(***************************************************************************)
EXTENDS Integers, Sequences, FiniteSets, TLC

VARIABLES
    \* ---- node (esp32_sensor/monitor.py) ----
    npc,         \* position of read_temperature_loop in the wake cycle
    file,        \* device_state.json: [status, data]
    state,       \* StateManager.state (in memory)
    is_open,     \* ValveControl._is_open
    pin,         \* level of the valve output pin (TRUE = 1)
    solar_temp,  \* last solar reading: F(hundredths of a degree) or Null
    tank_temp,   \* last tank reading: F(hundredths of a degree) or Null
    should_open, \* the decision of the cycle
    op,          \* what the last node operation did (observation only)
    prev,        \* what the node operation before it did (observation only)
    \* ---- node radio (esp32_sensor/ble_client.py) ----
    adv,         \* the advertise task: "off", "advertising", "connected", "closed"
    event,       \* Sensor._event
    temp_char,   \* value of the telemetry characteristic
    handled,     \* commands passed to the drain's callback in this wake cycle
    empty_at_start, \* the hub queue was empty when the drain loop was entered
    \* ---- hub (pizero/server.py) ----
    queue,       \* TemperatureServer._current_command
    ready,       \* _command_ready_event
    read_ev,     \* _command_read_event
    up,          \* the BLE peripheral "pi" is started
    char,        \* value of the command characteristic
    hpc,         \* position of start_ble_peripheral
    dpc,         \* position of start_ble_discovery
    metrics,     \* _last_known_metrics
    \* ---- observation of one serving session ----
    offered,     \* commands in the queue at, or appended since, the session's start
    popped,      \* commands the session has removed from the queue
    posted,      \* number of accepted POST /api/command requests
    \* ---- hub process and administrative API (pizero/server.py) ----
    resp,        \* the last response of the administrative API (observation only)
    running      \* asyncio.run(main()) has not returned

nodeVars == <<file, state, is_open, pin, op, prev>>
cycleVars == <<npc, solar_temp, tank_temp, should_open>>
radioVars == <<adv, event, temp_char, handled, empty_at_start>>
hubCmdVars == <<queue, ready, read_ev, up, char, hpc, offered, popped, posted>>
hubTelVars == <<dpc, metrics>>
adminVars == <<resp, running>>
vars == <<npc, file, state, is_open, pin, solar_temp, tank_temp, should_open, op,
          prev, adv, event, temp_char, handled, empty_at_start,
          queue, ready, read_ev, up, char, hpc, dpc, metrics,
          offered, popped, posted, resp, running>>

----------------------------------------------------------------------------
\* JSON values: a kind and a number (int: the value; float: hundredths;
\* str: its length; bool: 0/1; null: 0).
I(n) == [kind |-> "int", n |-> n]
F(h) == [kind |-> "float", n |-> h]
S(len) == [kind |-> "str", n |-> len]
B(b) == [kind |-> "bool", n |-> IF b THEN 1 ELSE 0]
Null == [kind |-> "null", n |-> 0]

Cmd(t, v) == [type |-> t, value |-> v]

\* Python truth value of a JSON value.
Truthy(v) == v.n # 0

\* isinstance(v, (int, float)) for the values a command carries here
\* (numbers, strings and null).
IsIntOrFloat(v) == v.kind \in {"int", "float"}

\* TEMP_THRESHOLD = 0.5 degrees, in hundredths of a degree.
TEMP_THRESHOLD == 50

\* The default deepsleep_duration, in seconds.
DefaultSleep == 10

Defaults == [valve_open |-> FALSE, deepsleep_duration |-> I(DefaultSleep)]

\* The observation of one node operation: its name and argument, the pin
\* and file writes it attempted, the outcome of the file write, the
\* exception raised inside it and the exception its caller saw.
NoOp == [name |-> "none", arg |-> Cmd("none", Null), pinWrites |-> 0, saves |-> 0,
         save |-> "none", exc |-> "none", surfaced |-> "none"]

----------------------------------------------------------------------------
\* Outcomes of one attempt to write the state file.
SaveOutcomes == {"ok", "open_fails", "write_fails"}

\* StateManager._save_state: open(STATE_FILE, 'w') and json.dump; an OSError
\* is printed and not re-raised.  A failure of open leaves the file as it
\* was; a failure after open leaves it truncated (unparsable).
SaveState(st, f, outcome) ==
    CASE outcome = "ok" -> [status |-> "valid", data |-> st]
      [] outcome = "open_fails" -> f
      [] OTHER -> [status |-> "corrupt", data |-> Defaults]


\* StateManager.set: state[key] = value, then _save_state; returns the new
\* in-memory state and the new file.  Nothing is raised to the caller.
StateSet(st, f, key, value, outcome) ==
    LET st2 == [st EXCEPT ![key] = value]
    IN [state |-> st2, file |-> SaveState(st2, f, outcome)]

\* _open / _close without the "already open" / "already closed" return.
ValveMoveAlways(n, open, pinOk, outcome) ==
    IF ~pinOk
    THEN [n |-> [n EXCEPT !.is_open = open],
          exc |-> "pin", pinWrites |-> 1, saves |-> 0, save |-> "none"]
    ELSE [n |-> [is_open |-> open, pin |-> open,
                 state |-> [n.state EXCEPT !.valve_open = open],
                 file |-> SaveState([n.state EXCEPT !.valve_open = open],
                                    n.file, outcome)],
          exc |-> "none", pinWrites |-> 1, saves |-> 1, save |-> outcome]

\* ValveControl._open / ValveControl._close on the node n =
\* [is_open, pin, state, file]: nothing when the position is already the
\* requested one; otherwise _is_open is assigned first, then the pin is
\* written (pinOk = FALSE: Pin.value raises), then the state is persisted.
ValveMove(n, open, pinOk, outcome) ==
    IF n.is_open = open
    THEN [n |-> n, exc |-> "none", pinWrites |-> 0, saves |-> 0, save |-> "none"]
    ELSE IF ~pinOk
    THEN [n |-> [n EXCEPT !.is_open = open],
          exc |-> "pin", pinWrites |-> 1, saves |-> 0, save |-> "none"]
    ELSE LET r == StateSet(n.state, n.file, "valve_open", open, outcome)
         IN [n |-> [is_open |-> open, pin |-> open,
                    state |-> r.state, file |-> r.file],
             exc |-> "none", pinWrites |-> 1, saves |-> 1, save |-> outcome]

\* ValveControl.toggle: runs _open or _close inside try/except Exception,
\* which prints the error; the caller sees no exception.
ToggleExcept(exc) == "none"

Toggle(n, open, pinOk, outcome) ==
    LET r == ValveMove(n, open, pinOk, outcome)
    IN [n |-> r.n,
        op |-> [name |-> "toggle", arg |-> Cmd("toggle", B(open)),
                pinWrites |-> r.pinWrites, saves |-> r.saves, save |-> r.save,
                exc |-> r.exc, surfaced |-> ToggleExcept(r.exc)]]

\* The test without "duration > 0".
ValidDurationNoSign(v) == Truthy(v) /\ IsIntOrFloat(v)

\* handle_command's test of a deepsleep_duration value:
\* duration and isinstance(duration, (int, float)) and duration > 0
ValidDuration(v) == Truthy(v) /\ IsIntOrFloat(v) /\ v.n > 0

\* handle_command without the test of the command's type.
KnownTypeAny(t) == TRUE

\* handle_command: cmd_type == 'deepsleep_duration'
KnownType(t) == t = "deepsleep_duration"

\* handle_command(cmd) on the node n.
HandleCommand(n, cmd, outcome) ==
    IF KnownType(cmd.type) /\ ValidDuration(cmd.value)
    THEN LET r == StateSet(n.state, n.file, "deepsleep_duration", cmd.value, outcome)
         IN [n |-> [n EXCEPT !.state = r.state, !.file = r.file],
             op |-> [name |-> "handle", arg |-> cmd, pinWrites |-> 0,
                     saves |-> 1, save |-> outcome, exc |-> "none",
                     surfaced |-> "none"]]
    ELSE [n |-> n,
          op |-> [name |-> "handle", arg |-> cmd, pinWrites |-> 0,
                  saves |-> 0, save |-> "none", exc |-> "none",
                  surfaced |-> "none"]]

\* The handler the wake cycle gives the drain: handle_command.
Callback(n, cmd, outcome) == HandleCommand(n, cmd, outcome)

\* _load_state that writes the file back after every load.
LoadStateRewrites(f, outcome) ==
    LET st == IF f.status = "valid" THEN f.data ELSE Defaults
    IN [state |-> st, file |-> SaveState(st, f, outcome),
        saves |-> 1, save |-> outcome]

\* _load_state that never writes the file.
LoadStateNoRewrite(f, outcome) ==
    [state |-> IF f.status = "valid" THEN f.data ELSE Defaults,
     file |-> f, saves |-> 0, save |-> "none"]

\* StateManager.__init__ / _load_state, then ValveControl.__init__: the
\* defaults updated with the file's record; without a parsable file the
\* defaults are written back.  The pin is driven to the loaded position.
LoadState(f, outcome) ==
    IF f.status = "valid"
    THEN [state |-> f.data, file |-> f, saves |-> 0, save |-> "none"]
    ELSE [state |-> Defaults, file |-> SaveState(Defaults, f, outcome),
          saves |-> 1, save |-> outcome]

BootNode(f, outcome) ==
    LET r == LoadState(f, outcome)
    IN [n |-> [is_open |-> r.state.valve_open, pin |-> r.state.valve_open,
               state |-> r.state, file |-> r.file],
        op |-> [name |-> "boot", arg |-> Cmd("boot", Null), pinWrites |-> 1,
                saves |-> r.saves, save |-> r.save, exc |-> "none",
                surfaced |-> "none"]]

Node == [is_open |-> is_open, pin |-> pin, state |-> state, file |-> file]

\* The node's four fields and the observation take the values of r.
NodeBecomes(r) ==
    /\ is_open' = r.n.is_open
    /\ pin' = r.n.pin
    /\ state' = r.n.state
    /\ file' = r.n.file
    /\ op' = r.op
    /\ prev' = op

----------------------------------------------------------------------------
\* Bounds of the model.
MaxPosts == 2

MaxHandled == 3

\* Probe readings: round(temp, 2) as hundredths of a degree, or Null when
\* the probe is absent.
Temps == {F(2000), F(2050)}

Readings == Temps \cup {Null}

\* The characteristic's initial value and the end-of-stream marker.
Placeholder == Cmd("none", S(0))

Eof == Cmd("eof", S(0))

\* Commands the administrative caller posts.
PostCmds == {Cmd("deepsleep_duration", I(45)), Cmd("valve", I(1))}

\* Commands handle_command is applied to.
AllCmds == PostCmds \cup
           {Cmd("deepsleep_duration", v) :
                v \in {I(30), I(0), I(-1), S(1), S(0), Null, F(50), F(-50)}}

NoPayload == [written |-> FALSE, solar |-> Null, tank |-> Null, faucet_closed |-> FALSE]

DefaultMetrics == [solar |-> F(0), tank |-> F(0), faucet_closed |-> FALSE, timestamp |-> I(0)]

\* payload.get(key, default) on the decoded telemetry payload: the default
\* only when the key is absent (a null value is returned as it is).
PayloadGet(p, key, default) == IF key \in DOMAIN p THEN p[key] ELSE default

\* The cache update that keeps the zero-valued default.
UpdateMetricsKeepsDefault(p, now) == DefaultMetrics

\* start_ble_discovery after json.loads: three fields of the cache from the
\* payload, the timestamp from the hub's event-loop clock (now).
UpdateMetrics(p, now) ==
    [solar |-> PayloadGet(p, "solar", F(0)),
     tank |-> PayloadGet(p, "tank", F(0)),
     faucet_closed |-> PayloadGet(p, "faucet_closed", FALSE),
     timestamp |-> now]

\* Bodies of POST /api/command: text that is not JSON; JSON that is not an
\* object (a number or null); an object with or without the keys "type" and
\* "value", whose "type" is or is not a string.  cmd is the command the keys
\* describe.
Body(form, hasType, hasValue, typeIsStr, cmd) ==
    [form |-> form, has_type |-> hasType, has_value |-> hasValue,
     type_is_str |-> typeIsStr, cmd |-> cmd]

WellFormed(cmd) == Body("object", TRUE, TRUE, TRUE, cmd)

PostBodies ==
    {WellFormed(c) : c \in PostCmds} \cup
    {Body("text", FALSE, FALSE, FALSE, Placeholder),
     Body("scalar", FALSE, FALSE, FALSE, Placeholder),
     Body("object", FALSE, TRUE, FALSE, Cmd("none", I(45))),
     Body("object", TRUE, FALSE, TRUE, Cmd("deepsleep_duration", Null)),
     Body("object", FALSE, FALSE, FALSE, Placeholder),
     Body("object", TRUE, TRUE, FALSE, Cmd("none", I(45)))}

NoBody == Body("none", FALSE, FALSE, FALSE, Placeholder)

\* The administrative API before its first request.
NoResponse == [op |-> "none", request |-> NoBody, status |-> 0,
               commands |-> <<>>, count |-> 0, metrics |-> DefaultMetrics]

\* handle_post_command that appends whatever it is given.
PostCommandNoChecks(q, body) ==
    [queue |-> Append(q, body.cmd), set_ready |-> TRUE, status |-> 200]

\* handle_post_command on the queue q: request.json() (JSONDecodeError: 400),
\* the test of the two keys (400; on a JSON number or null the "in" test
\* raises TypeError: 500), Command(type=..., value=...) (a type that is not a
\* string raises ValidationError: 500), then append and set the ready event.
PostCommand(q, body) ==
    CASE body.form = "text" -> [queue |-> q, set_ready |-> FALSE, status |-> 400]
      [] body.form = "scalar" -> [queue |-> q, set_ready |-> FALSE, status |-> 500]
      [] body.form = "object" /\ ~(body.has_type /\ body.has_value) ->
             [queue |-> q, set_ready |-> FALSE, status |-> 400]
      [] body.form = "object" /\ body.has_type /\ body.has_value
             /\ ~body.type_is_str ->
             [queue |-> q, set_ready |-> FALSE, status |-> 500]
      [] OTHER -> [queue |-> Append(q, body.cmd), set_ready |-> TRUE, status |-> 200]

\* handle_get_command with a count that is always zero.
GetCommandNoCount(q) ==
    [op |-> "get_command", request |-> NoBody, status |-> 200,
     commands |-> q, count |-> 0, metrics |-> DefaultMetrics]

\* handle_get_command: every command of the queue and their number.
GetCommand(q) ==
    [op |-> "get_command", request |-> NoBody, status |-> 200,
     commands |-> q, count |-> Len(q), metrics |-> DefaultMetrics]

\* handle_get_metrics: the cached reading.
GetMetrics(m) ==
    [op |-> "get_metrics", request |-> NoBody, status |-> 200,
     commands |-> <<>>, count |-> 0, metrics |-> m]

----------------------------------------------------------------------------
\* The decision without the threshold.
DecideNoThreshold(s, t) == s.n > t.n

\* read_temperature_loop: should_open = solar_temp + TEMP_THRESHOLD > tank_temp
Decide(s, t) == s.n + TEMP_THRESHOLD > t.n

\* The payload of the cycle.
Payload(s, t, so) == [written |-> TRUE, solar |-> s, tank |-> t, faucet_closed |-> ~so]

\* start_ble_peripheral from the head of "while self._current_command" to its
\* next suspension: q the queue, rd whether _command_read_event is set, pp
\* the commands popped so far.  A set event lets wait() return at once.
RECURSIVE ServeLoop(_, _, _)
ServeLoop(q, rd, pp) ==
    IF q # <<>>
    THEN IF rd
         THEN ServeLoop(Tail(q), FALSE, Append(pp, Head(q)))
         ELSE [queue |-> Tail(q), read_ev |-> FALSE, char |-> Head(q),
               hpc |-> "wait_read", popped |-> Append(pp, Head(q))]
    ELSE [queue |-> q, read_ev |-> FALSE, char |-> Eof,
          hpc |-> IF rd THEN "stopping" ELSE "wait_eof", popped |-> pp]

HubBecomes(r) ==
    /\ queue' = r.queue
    /\ read_ev' = r.read_ev
    /\ char' = r.char
    /\ hpc' = r.hpc
    /\ popped' = r.popped

\* _command_read_request: sets _command_read_event; a serving loop that is
\* suspended in wait() then runs to its next suspension.
ReadRequest ==
    CASE hpc = "wait_read" -> ServeLoop(queue, FALSE, popped)
      [] hpc = "wait_eof" -> [queue |-> queue, read_ev |-> FALSE, char |-> char,
                              hpc |-> "stopping", popped |-> popped]
      [] OTHER -> [queue |-> queue, read_ev |-> TRUE, char |-> char,
                   hpc |-> hpc, popped |-> popped]

----------------------------------------------------------------------------
\* The node before its first boot (no state file yet) and the hub after
\* TemperatureServer.__init__.
Init ==
    /\ npc = "boot"
    /\ file = [status |-> "absent", data |-> Defaults]
    /\ state = Defaults
    /\ is_open = FALSE
    /\ pin = FALSE
    /\ solar_temp = Null
    /\ tank_temp = Null
    /\ should_open = FALSE
    /\ op = NoOp
    /\ prev = NoOp
    /\ adv = "off"
    /\ event = FALSE
    /\ temp_char = NoPayload
    /\ handled = <<>>
    /\ empty_at_start = FALSE
    /\ queue = <<>>
    /\ ready = FALSE
    /\ read_ev = FALSE
    /\ up = FALSE
    /\ char = Placeholder
    /\ hpc = "idle"
    /\ dpc = "scan"
    /\ metrics = DefaultMetrics
    /\ offered = <<>>
    /\ popped = <<>>
    /\ posted = 0
    /\ resp = NoResponse
    /\ running = TRUE

----------------------------------------------------------------------------
\* Node: one wake cycle of read_temperature_loop.

\* Module load and the head of read_temperature_loop: StateManager(),
\* ValveControl(), Sensor(), advertise().
NodeBoot ==
    /\ npc = "boot"
    /\ \E outcome \in SaveOutcomes : NodeBecomes(BootNode(file, outcome))
    /\ adv' = "advertising"
    /\ event' = FALSE
    /\ temp_char' = NoPayload
    /\ handled' = <<>>
    /\ empty_at_start' = FALSE
    /\ npc' = "read"
    /\ UNCHANGED <<solar_temp, tank_temp, should_open>>
    /\ UNCHANGED <<hubCmdVars, hubTelVars, adminVars>>

\* solar_sensor.read_temp() and tank_sensor.read_temp().
NodeReadTemps ==
    /\ npc = "read"
    /\ \E s \in Readings, t \in Readings :
          /\ solar_temp' = s
          /\ tank_temp' = t
    /\ npc' = "decide"
    /\ UNCHANGED <<should_open, nodeVars, radioVars, hubCmdVars, hubTelVars, adminVars>>

\* should_open = solar_temp + TEMP_THRESHOLD > tank_temp; with a None
\* operand the expression raises TypeError, which the loop's except prints
\* before the cycle goes to deep sleep.
NodeDecide ==
    /\ npc = "decide"
    /\ IF solar_temp = Null \/ tank_temp = Null
       THEN /\ npc' = "sleep"
            /\ op' = [NoOp EXCEPT !.name = "decide_error", !.exc = "type"]
            /\ UNCHANGED should_open
       ELSE /\ should_open' = Decide(solar_temp, tank_temp)
            /\ op' = [NoOp EXCEPT !.name = "decide"]
            /\ npc' = "toggle"
    /\ prev' = op
    /\ UNCHANGED <<file, state, is_open, pin, solar_temp, tank_temp>>
    /\ UNCHANGED <<radioVars, hubCmdVars, hubTelVars, adminVars>>

\* valve.toggle(should_open)
NodeToggle ==
    /\ npc = "toggle"
    /\ \E pinOk \in BOOLEAN, outcome \in SaveOutcomes :
          NodeBecomes(Toggle(Node, should_open, pinOk, outcome))
    /\ npc' = "publish"
    /\ UNCHANGED <<solar_temp, tank_temp, should_open>>
    /\ UNCHANGED <<radioVars, hubCmdVars, hubTelVars, adminVars>>

\* send_json without self._event.clear().
NodePublishNoClear ==
    /\ npc = "publish"
    /\ temp_char' = Payload(solar_temp, tank_temp, should_open)
    /\ npc' = "await_ack"
    /\ UNCHANGED <<solar_temp, tank_temp, should_open, nodeVars, adv, event,
                   handled, empty_at_start>>
    /\ UNCHANGED <<hubCmdVars, hubTelVars, adminVars>>

\* Sensor.send_json up to its wait: clear the event, write the payload.
NodePublish ==
    /\ npc = "publish"
    /\ event' = FALSE
    /\ temp_char' = Payload(solar_temp, tank_temp, should_open)
    /\ npc' = "await_ack"
    /\ UNCHANGED <<solar_temp, tank_temp, should_open, nodeVars, adv, handled,
                   empty_at_start>>
    /\ UNCHANGED <<hubCmdVars, hubTelVars, adminVars>>

\* send_json without await self._event.wait().
NodeAckedNoWait ==
    /\ npc = "await_ack"
    /\ npc' = "scan"
    /\ UNCHANGED <<solar_temp, tank_temp, should_open, nodeVars, radioVars>>
    /\ UNCHANGED <<hubCmdVars, hubTelVars, adminVars>>

\* Sensor.send_json returns once the event is set.
NodeAcked ==
    /\ npc = "await_ack"
    /\ event
    /\ npc' = "scan"
    /\ UNCHANGED <<solar_temp, tank_temp, should_open, nodeVars, radioVars>>
    /\ UNCHANGED <<hubCmdVars, hubTelVars, adminVars>>

\* scan_and_read_commands: the scan sees a device named "pi"; connect and
\* discover the command characteristic.
NodeScanFound ==
    /\ npc \in {"scan", "rescan"}
    /\ up
    /\ npc' = "drain"
    /\ empty_at_start' = (queue = <<>>)
    /\ UNCHANGED <<solar_temp, tank_temp, should_open, nodeVars>>
    /\ UNCHANGED <<adv, event, temp_char, handled>>
    /\ UNCHANGED <<hubCmdVars, hubTelVars, adminVars>>

\* scan_and_read_commands: the 2 s scan ends without a match; returns None.
NodeScanExhausted ==
    /\ npc \in {"scan", "rescan"}
    /\ npc' = "sleep"
    /\ UNCHANGED <<solar_temp, tank_temp, should_open, nodeVars, radioVars>>
    /\ UNCHANGED <<hubCmdVars, hubTelVars, adminVars>>

\* One pass of the drain loop: read the characteristic (the hub runs
\* _command_read_request), decode, and either pass the command to the
\* callback (handle_command) or leave the loop on the end-of-stream marker.
NodeRead ==
    /\ npc = "drain"
    /\ up
    /\ char.type = "eof" \/ Len(handled) < MaxHandled
    /\ HubBecomes(ReadRequest)
    /\ IF char.type # "eof"
       THEN /\ handled' = Append(handled, char)
            /\ \E outcome \in SaveOutcomes :
                  NodeBecomes(Callback(Node, char, outcome))
            /\ npc' = "drain"
       ELSE /\ npc' = "drained"
            /\ UNCHANGED <<handled, nodeVars>>
    /\ UNCHANGED <<solar_temp, tank_temp, should_open, adv, event, temp_char,
                   empty_at_start>>
    /\ UNCHANGED <<ready, up, offered, posted, hubTelVars, adminVars>>

\* The observation of a failure inside scan_and_read_commands.
SessionError(kind) == [NoOp EXCEPT !.name = "session_error", !.exc = kind]

\* scan_and_read_commands: the scan sees "pi" but connect, service or
\* characteristic raises (or the service is not found): the except prints
\* the error and the "async for" over the scan results goes on.
NodeConnectFails ==
    /\ npc \in {"scan", "rescan"}
    /\ up
    /\ npc' = "rescan"
    /\ op' = SessionError("connect")
    /\ prev' = op
    /\ UNCHANGED <<file, state, is_open, pin>>
    /\ UNCHANGED <<solar_temp, tank_temp, should_open, radioVars>>
    /\ UNCHANGED <<hubCmdVars, hubTelVars, adminVars>>

\* One pass of the drain loop that raises: the value the hub returned
\* cannot be decoded (json.loads raises ValueError), or the read itself
\* fails before it reaches the hub.  The exception leaves the while loop,
\* the except prints it, and the "async for" over the scan results goes on.
NodeReadFails ==
    /\ npc = "drain"
    /\ up
    /\ \E kind \in {"decode", "read"} :
          /\ op' = SessionError(kind)
          /\ IF kind = "decode"
             THEN HubBecomes(ReadRequest)
             ELSE UNCHANGED <<queue, read_ev, char, hpc, popped>>
    /\ npc' = "rescan"
    /\ prev' = op
    /\ UNCHANGED <<file, state, is_open, pin>>
    /\ UNCHANGED <<solar_temp, tank_temp, should_open, radioVars>>
    /\ UNCHANGED <<ready, up, offered, posted, hubTelVars, adminVars>>

\* connection.disconnect() and return after the marker.
NodeDisconnect ==
    /\ npc = "drained"
    /\ npc' = "sleep"
    /\ UNCHANGED <<solar_temp, tank_temp, should_open, nodeVars, radioVars>>
    /\ UNCHANGED <<hubCmdVars, hubTelVars, adminVars>>

\* deepsleep(...): the node powers down; everything in memory is lost and
\* the next cycle starts from the module load.
NodeSleep ==
    /\ npc = "sleep"
    /\ npc' = "boot"
    /\ adv' = "off"
    /\ solar_temp' = Null
    /\ tank_temp' = Null
    /\ should_open' = FALSE
    /\ UNCHANGED <<nodeVars, event, temp_char, handled, empty_at_start>>
    /\ UNCHANGED <<hubCmdVars, hubTelVars, adminVars>>

----------------------------------------------------------------------------
\* Hub: start_ble_peripheral.

\* await self._command_ready_event.wait() returns.
HubWake ==
    /\ hpc = "idle"
    /\ ready
    /\ hpc' = "starting"
    /\ UNCHANGED <<queue, ready, read_ev, up, char, offered, popped, posted>>
    /\ UNCHANGED <<cycleVars, nodeVars, radioVars, hubTelVars, adminVars>>

\* BlessServer(...), add_new_service, add_new_characteristic with the
\* placeholder value, start(): the peripheral is visible from here on.
HubStarted ==
    /\ hpc = "starting"
    /\ up' = TRUE
    /\ char' = Placeholder
    /\ hpc' = "settle"
    /\ offered' = queue
    /\ popped' = <<>>
    /\ UNCHANGED <<queue, ready, read_ev, posted>>
    /\ UNCHANGED <<cycleVars, nodeVars, radioVars, hubTelVars, adminVars>>

\* An exception while the peripheral is set up: _ble_server = None, nothing
\* to stop, the ready event is cleared.
HubStartFails ==
    /\ hpc = "starting"
    /\ ready' = FALSE
    /\ hpc' = "idle"
    /\ UNCHANGED <<queue, read_ev, up, char, offered, popped, posted>>
    /\ UNCHANGED <<cycleVars, nodeVars, radioVars, hubTelVars, adminVars>>

\* asyncio.sleep(3) is over: enter the while loop.
HubServe ==
    /\ hpc = "settle"
    /\ HubBecomes(ServeLoop(queue, read_ev, popped))
    /\ UNCHANGED <<ready, up, offered, posted>>
    /\ UNCHANGED <<cycleVars, nodeVars, radioVars, hubTelVars, adminVars>>

\* The end of a session without self._command_ready_event.clear().
HubStoppedKeepsReady ==
    /\ hpc = "stopping"
    /\ up' = FALSE
    /\ hpc' = "idle"
    /\ offered' = <<>>
    /\ popped' = <<>>
    /\ UNCHANGED <<queue, ready, read_ev, char, posted>>
    /\ UNCHANGED <<cycleVars, nodeVars, radioVars, hubTelVars, adminVars>>

\* finally: await self._ble_server.stop(); then the ready event is cleared.
HubStopped ==
    /\ hpc = "stopping"
    /\ up' = FALSE
    /\ ready' = FALSE
    /\ hpc' = "idle"
    /\ offered' = <<>>
    /\ popped' = <<>>
    /\ UNCHANGED <<queue, read_ev, char, posted>>
    /\ UNCHANGED <<cycleVars, nodeVars, radioVars, hubTelVars, adminVars>>

\* Hub: handle_post_command with a well-formed body.
HubPost ==
    /\ posted < MaxPosts
    /\ \E c \in PostCmds :
          /\ queue' = Append(queue, c)
          /\ offered' = IF hpc \in {"idle", "starting"} THEN offered
                         ELSE Append(offered, c)
    /\ ready' = TRUE
    /\ posted' = posted + 1
    /\ UNCHANGED <<read_ev, up, char, hpc, popped>>
    /\ UNCHANGED <<cycleVars, nodeVars, radioVars, hubTelVars, adminVars>>

\* Hub: handle_get_command and handle_get_metrics read and change nothing.
HubGet ==
    /\ UNCHANGED vars

----------------------------------------------------------------------------
\* Hub: start_ble_discovery.

\* BleakScanner.discover finds the advertising node; BleakClient connects.
HubDiscover ==
    /\ dpc = "scan"
    /\ adv = "advertising"
    /\ adv' = "connected"
    /\ dpc' = "connected"
    /\ UNCHANGED <<metrics, event, temp_char, handled, empty_at_start>>
    /\ UNCHANGED <<cycleVars, nodeVars, hubCmdVars, adminVars>>

\* read_gatt_char and json.loads, then the client context closes.  An
\* unwritten characteristic or a node that has gone fails the read and
\* leaves the cache as it was.  The node's advertise task sees the
\* disconnect and sets the event.
HubReadTelemetry ==
    /\ dpc = "connected"
    /\ dpc' = "scan"
    /\ IF adv = "connected" /\ temp_char.written
       THEN metrics' = UpdateMetrics(temp_char, I(1))
       ELSE UNCHANGED metrics
    /\ IF adv = "connected"
       THEN adv' = "closed" /\ event' = TRUE
       ELSE UNCHANGED <<adv, event>>
    /\ UNCHANGED <<temp_char, handled, empty_at_start>>
    /\ UNCHANGED <<cycleVars, nodeVars, hubCmdVars, adminVars>>

----------------------------------------------------------------------------
\* The hub with any peer: the administrative API with every kind of body,
\* the failures of the peripheral and of a discovery pass, and a peer that
\* advertises, publishes and reads whenever it likes.

\* handle_post_command with any body.
AdminPost ==
    /\ running
    /\ \E body \in PostBodies :
          LET r == PostCommand(queue, body)
          IN /\ r.status = 200 => posted < MaxPosts
             /\ queue' = r.queue
             /\ ready' = (ready \/ r.set_ready)
             /\ offered' = IF r.status = 200 /\ hpc \notin {"idle", "starting"}
                            THEN Append(offered, body.cmd) ELSE offered
             /\ posted' = IF r.status = 200 THEN posted + 1 ELSE posted
             /\ resp' = [op |-> "post_command", request |-> body,
                         status |-> r.status,
                         commands |-> IF r.status = 200 THEN <<body.cmd>> ELSE <<>>,
                         count |-> IF r.status = 200 THEN Len(r.queue) ELSE 0,
                         metrics |-> DefaultMetrics]
    /\ UNCHANGED <<read_ev, up, char, hpc, popped, running>>
    /\ UNCHANGED <<cycleVars, nodeVars, radioVars, hubTelVars>>

\* handle_get_command
AdminGetCommand ==
    /\ running
    /\ resp' = GetCommand(queue)
    /\ UNCHANGED <<cycleVars, nodeVars, radioVars, hubCmdVars, hubTelVars, running>>

\* handle_get_metrics
AdminGetMetrics ==
    /\ running
    /\ resp' = GetMetrics(metrics)
    /\ UNCHANGED <<cycleVars, nodeVars, radioVars, hubCmdVars, hubTelVars, running>>

\* finally: await self._ble_server.stop() raises.  The exception leaves
\* start_ble_peripheral; asyncio.gather re-raises it in start(), main() logs
\* it and returns, and asyncio.run cancels the tasks that are left.
HubStopFails ==
    /\ hpc = "stopping"
    /\ hpc' = "raised"
    /\ dpc' = "cancelled"
    /\ running' = FALSE
    /\ up' = FALSE
    /\ IF adv = "connected"
       THEN adv' = "closed" /\ event' = TRUE
       ELSE UNCHANGED <<adv, event>>
    /\ UNCHANGED <<queue, ready, read_ev, char, offered, popped, posted, metrics, resp>>
    /\ UNCHANGED <<cycleVars, nodeVars, temp_char, handled, empty_at_start>>

\* start_ble_discovery: BleakScanner.discover or BleakClient raises; the
\* except logs it and sleeps 10 s.
HubDiscoverFails ==
    /\ dpc \in {"scan", "connected"}
    /\ dpc' = "backoff"
    /\ IF adv = "connected"
       THEN adv' = "closed" /\ event' = TRUE
       ELSE UNCHANGED <<adv, event>>
    /\ UNCHANGED <<metrics, temp_char, handled, empty_at_start>>
    /\ UNCHANGED <<cycleVars, nodeVars, hubCmdVars, adminVars>>

\* asyncio.sleep(10) is over: the next pass of the while loop.
HubDiscoverResumes ==
    /\ dpc = "backoff"
    /\ dpc' = "scan"
    /\ UNCHANGED <<metrics, radioVars>>
    /\ UNCHANGED <<cycleVars, nodeVars, hubCmdVars, adminVars>>

\* A peer in its wake cycle: advertise() and, at some point, send_json
\* with the payload of the cycle.
PeerAdvertises ==
    /\ adv \in {"off", "closed"}
    /\ adv' = "advertising"
    /\ event' = FALSE
    /\ \E s \in Temps :
          temp_char' \in {NoPayload, Payload(s, F(2050), Decide(s, F(2050)))}
    /\ UNCHANGED <<handled, empty_at_start>>
    /\ UNCHANGED <<cycleVars, nodeVars, hubCmdVars, hubTelVars, adminVars>>

\* A peer reads the command characteristic: _command_read_request.
PeerReads ==
    /\ up
    /\ HubBecomes(ReadRequest)
    /\ UNCHANGED <<ready, up, offered, posted>>
    /\ UNCHANGED <<cycleVars, nodeVars, radioVars, hubTelVars, adminVars>>

NextHub ==
    \/ HubWake
    \/ HubStarted
    \/ HubStartFails
    \/ HubServe
    \/ HubStopped
    \/ HubStopFails
    \/ AdminPost
    \/ AdminGetCommand
    \/ AdminGetMetrics
    \/ HubDiscover
    \/ HubReadTelemetry
    \/ HubDiscoverFails
    \/ HubDiscoverResumes
    \/ PeerAdvertises
    \/ PeerReads

SpecHub == Init /\ [][NextHub]_vars

\* The hub's serving loop runs whenever it can: asyncio resumes a coroutine
\* whose await has completed.  Nothing obliges a peer to read.
SpecHubFair ==
    /\ SpecHub
    /\ WF_vars(HubWake)
    /\ WF_vars(HubStarted \/ HubStartFails)
    /\ WF_vars(HubServe)
    /\ WF_vars(HubStopped \/ HubStopFails)

----------------------------------------------------------------------------
Next ==
    \/ NodeBoot
    \/ NodeReadTemps
    \/ NodeDecide
    \/ NodeToggle
    \/ NodePublish
    \/ NodeAcked
    \/ NodeScanFound
    \/ NodeScanExhausted
    \/ NodeRead
    \/ NodeDisconnect
    \/ NodeSleep
    \/ HubWake
    \/ HubStarted
    \/ HubStartFails
    \/ HubServe
    \/ HubStopped
    \/ HubPost
    \/ HubGet
    \/ HubDiscover
    \/ HubReadTelemetry

Spec == Init /\ [][Next]_vars

\* The whole system with the failures of the node's command session.
NextSession ==
    \/ Next
    \/ NodeConnectFails
    \/ NodeReadFails

SpecSession == Init /\ [][NextSession]_vars

----------------------------------------------------------------------------
\* The node's objects driven call by call: any sequence of valve.toggle,
\* handle_command and restarts, each with any outcome of its writes.

ApiToggle ==
    /\ \E open \in BOOLEAN, pinOk \in BOOLEAN, outcome \in SaveOutcomes :
          NodeBecomes(Toggle(Node, open, pinOk, outcome))
    /\ UNCHANGED <<cycleVars, radioVars, hubCmdVars, hubTelVars, adminVars>>

ApiHandle ==
    /\ \E c \in AllCmds, outcome \in SaveOutcomes :
          NodeBecomes(HandleCommand(Node, c, outcome))
    /\ UNCHANGED <<cycleVars, radioVars, hubCmdVars, hubTelVars, adminVars>>

ApiRestart ==
    /\ \E outcome \in SaveOutcomes : NodeBecomes(BootNode(file, outcome))
    /\ UNCHANGED <<cycleVars, radioVars, hubCmdVars, hubTelVars, adminVars>>

NextApi ==
    \/ ApiToggle
    \/ ApiHandle
    \/ ApiRestart

SpecApi == Init /\ [][NextApi]_vars

----------------------------------------------------------------------------
\* What a restart would load from the file.
Persisted(f) == IF f.status = "valid" THEN f.data ELSE Defaults

\* Steps of the wake cycle that the properties below speak about.
ToggleStep == npc = "toggle" /\ npc' = "publish"

HandleStep == npc = "drain" /\ Len(handled') = Len(handled) + 1

MarkerStep == npc = "drain" /\ npc' = "drained"

Occurs(c, seq) == \E i \in DOMAIN seq : seq[i] = c

----------------------------------------------------------------------------
\* C1: when the node's drain loop ends on the end-of-stream marker, the
\* callback has been invoked with exactly the commands the serving session
\* removed from the hub queue, each once and in append order, and every
\* command offered in the session has been removed (the queue holds only
\* what was appended afterwards).
C1_DrainDeliversExactly ==
    [][MarkerStep => /\ handled' = popped'
                     /\ popped' \o queue' = offered']_vars

\* C2: a command that the serving session has removed from the queue has
\* been read by the node.
C2_DequeueOnlyOnRead ==
    \A i \in DOMAIN popped : Occurs(popped[i], handled)

\* C3: when the hub queue is empty as the node enters its drain loop, the
\* drain yields no command: the first read is answered with the marker.
C3_EmptyQueueYieldsNothing ==
    (npc \in {"drain", "drained"} /\ empty_at_start) => handled = <<>>


\* The cycle read a None temperature and has not gone to sleep yet.
NullCycle == npc \in {"decide", "sleep"} /\ (solar_temp = Null \/ tank_temp = Null)

\* The threshold rule on the readings of the cycle.
Rule == solar_temp.n + TEMP_THRESHOLD > tank_temp.n

\* C4: with both temperatures read, the decision of the cycle and the
\* position the valve is asked to take equal (solar + threshold > tank), and
\* the pin takes that level unless its write fails; with a None temperature
\* the cycle never reaches the toggle and leaves the pin, the in-memory
\* position and the state file as they were.
C4_ValveDecision ==
    /\ [](npc \in {"toggle", "publish", "await_ack"} =>
            /\ solar_temp # Null /\ tank_temp # Null
            /\ should_open = Rule)
    /\ []((npc = "publish" /\ op.name = "toggle") =>
            /\ op.arg = Cmd("toggle", B(Rule))
            /\ is_open = Rule
            /\ op.exc = "none" => pin = Rule)
    /\ [][NullCycle => /\ pin' = pin
                        /\ is_open' = is_open
                        /\ file' = file
                        /\ npc' \in {"decide", "sleep", "boot"}]_vars

\* The valve was open and the cycle's readings sit exactly on the
\* threshold (solar + threshold = tank): the decision is "close" and the
\* toggle has driven the pin low.
C4_Witness ==
    /\ npc = "publish"
    /\ op.name = "toggle"
    /\ solar_temp.n + TEMP_THRESHOLD = tank_temp.n
    /\ ~should_open
    /\ op.pinWrites = 1
    /\ op.exc = "none"
    /\ ~pin

\* C5: after every toggle the persisted valve_open, the in-memory position
\* and the level of the pin are equal.
C5_ValveConsistent ==
    (npc = "publish" /\ op.name = "toggle") =>
        /\ Persisted(file).valve_open = is_open
        /\ is_open = pin

\* C6: a toggle with the argument of the toggle just before it attempts no
\* pin write and no file write and changes nothing.
C6_RepeatIsNoop ==
    [][(prev' = op /\ op.name = "toggle" /\ op'.name = "toggle"
            /\ op'.arg = op.arg) =>
           /\ op'.pinWrites = 0
           /\ op'.saves = 0
           /\ pin' = pin
           /\ is_open' = is_open
           /\ state' = state
           /\ file' = file]_vars

\* toggle(x) moved the valve and the next call was toggle(x) again.
C6_Witness ==
    /\ op.name = "toggle"
    /\ prev.name = "toggle"
    /\ prev.arg = op.arg
    /\ prev.pinWrites = 1
    /\ prev.exc = "none"
    /\ op.pinWrites = 0
    /\ pin

\* C7: a toggle whose pin write fails leaves the in-memory position and the
\* state file unchanged, and its caller sees the error.
C7_ActuatorFailureSurfaced ==
    [][(ToggleStep /\ op'.exc = "pin") =>
           /\ is_open' = is_open
           /\ file' = file
           /\ op'.surfaced = "pin"]_vars

\* C8: a valve_open or deepsleep_duration mutation whose file write fails is
\* not applied: the in-memory state is what the file last held, and the
\* caller sees the failure.
C8_PersistFailureRolledBack ==
    [][((ToggleStep \/ HandleStep) /\ op'.save \in {"open_fails", "write_fails"}) =>
           /\ state' = Persisted(file)
           /\ op'.surfaced = "os"]_vars

\* A number, as opposed to a string or null.
IsJsonNumber(v) == v.kind \in {"int", "float"}

\* C9: handle_command on a deepsleep_duration command persists the value
\* when it is a positive number (and the file write succeeds), and changes
\* neither the file nor the in-memory state when it is not.
C9_SleepDurationCommand ==
    [][(prev' = op /\ op'.name = "handle"
            /\ op'.arg.type = "deepsleep_duration") =>
           IF IsJsonNumber(op'.arg.value) /\ op'.arg.value.n > 0
           THEN op'.save = "ok" =>
                    Persisted(file').deepsleep_duration = op'.arg.value
           ELSE file' = file /\ state' = state]_vars

\* A deepsleep_duration of 45 was persisted by one call, and the next call,
\* with the value "x", was rejected and left it in place.
C9_Witness ==
    /\ op.name = "handle"
    /\ op.arg = Cmd("deepsleep_duration", S(1))
    /\ op.saves = 0
    /\ prev.name = "handle"
    /\ prev.arg = Cmd("deepsleep_duration", I(45))
    /\ prev.save = "ok"
    /\ Persisted(file).deepsleep_duration = I(45)
    /\ state.deepsleep_duration = I(45)

\* C10: a drained command of another type than deepsleep_duration changes
\* neither the state (in memory or on file) nor the valve, the drain goes
\* on to its next read, and a command staged from the queue has been
\* removed from it, the hub staging its successor or the marker.
C10_UnknownTypeConsumedNoEffect ==
    [][(HandleStep /\ char.type # "deepsleep_duration") =>
           /\ file' = file /\ state' = state
           /\ is_open' = is_open /\ pin' = pin
           /\ npc' = "drain"
           /\ hpc = "wait_read" =>
                 /\ popped # <<>> /\ popped[Len(popped)] = char
                 /\ IF queue = <<>>
                    THEN char' = Eof /\ queue' = <<>>
                    ELSE char' = Head(queue) /\ queue' = Tail(queue)]_vars

\* The node has just handled a "valve" command that the hub had staged
\* from its queue, and goes on draining.
C10_Witness ==
    /\ npc = "drain"
    /\ op.name = "handle"
    /\ op.arg.type = "valve"
    /\ handled # <<>>
    /\ handled[Len(handled)] = op.arg
    /\ Occurs(op.arg, popped)
    /\ ~Occurs(op.arg, queue)
    /\ hpc \in {"wait_read", "wait_eof"}

\* The step is a start of the node: module load up to ValveControl().
BootStep == prev' = op /\ op'.name = "boot"

\* C11: a start of the node with a parsable state file takes both values
\* from the file, drives the pin to the persisted valve position, leaves the
\* in-memory position equal to it (no toggle) and writes nothing to the file.
C11_RestartRestores ==
    [][(BootStep /\ file.status = "valid") =>
           /\ state' = file.data
           /\ is_open' = file.data.valve_open
           /\ pin' = file.data.valve_open
           /\ op'.saves = 0
           /\ file' = file]_vars

\* The file held {valve_open: true, deepsleep_duration: 30}; a later
\* command set 45 in memory but its write failed; the restart has brought
\* back 30 and the open valve.
C11_Witness ==
    /\ op.name = "boot"
    /\ op.saves = 0
    /\ prev.name = "handle"
    /\ prev.arg.value = I(45)
    /\ prev.save = "open_fails"
    /\ state = [valve_open |-> TRUE, deepsleep_duration |-> I(30)]
    /\ file = [status |-> "valid", data |-> state]
    /\ is_open
    /\ pin

\* C12: a start of the node without a parsable state file (absent or
\* truncated) leaves the state at {valve_open: false, deepsleep_duration: 10}
\* and writes the file at once; when that write succeeds the file holds
\* exactly those defaults.
C12_DefaultsOnBadFile ==
    [][(BootStep /\ file.status # "valid") =>
           /\ state' = [valve_open |-> FALSE, deepsleep_duration |-> I(10)]
           /\ op'.saves = 1
           /\ op'.save = "ok" =>
                  file' = [status |-> "valid",
                           data |-> [valve_open |-> FALSE,
                                     deepsleep_duration |-> I(10)]]]_vars

\* A write of deepsleep_duration 45 failed after the file was opened and
\* left it truncated; the restart has fallen back to the defaults and
\* rewritten the file.
C12_Witness ==
    /\ op.name = "boot"
    /\ op.saves = 1
    /\ op.save = "ok"
    /\ prev.name = "handle"
    /\ prev.arg.value = I(45)
    /\ prev.save = "write_fails"
    /\ state.deepsleep_duration = I(10)
    /\ ~state.valve_open
    /\ file.status = "valid"
    /\ file.data = state

\* The hub has read the characteristic the node had written.
TelemetryReadStep ==
    dpc = "connected" /\ dpc' = "scan" /\ adv = "connected" /\ temp_char.written

\* C13: after the hub has read a reading the node published, the hub's
\* cache holds the four fields of that reading: solar, tank, faucet_closed
\* and timestamp.
C13_TelemetryRoundTrip ==
    [][TelemetryReadStep =>
           /\ metrics'.solar = temp_char.solar
           /\ metrics'.tank = temp_char.tank
           /\ metrics'.faucet_closed = temp_char.faucet_closed
           /\ "timestamp" \in DOMAIN temp_char
           /\ metrics'.timestamp = temp_char.timestamp]_vars

\* The step is a POST /api/command or a GET of the administrative API.
PostStep == resp' # resp /\ resp'.op = "post_command"

GetCommandStep == resp' # resp /\ resp'.op = "get_command"

GetMetricsStep == resp' # resp /\ resp'.op = "get_metrics"

\* The body is not JSON, not an object, lacks "type" or "value", or has a
\* "type" that is not a string.
Malformed(b) ==
    b.form # "object" \/ ~b.has_type \/ ~b.has_value \/ ~b.type_is_str

\* C14: a POST /api/command with a malformed body is answered with an error
\* status and leaves the command queue as it was.
C14_MalformedPostRejected ==
    [][(PostStep /\ Malformed(resp'.request)) =>
           /\ resp'.status \in {400, 500}
           /\ queue' = queue
           /\ ~Occurs(resp'.request.cmd, queue') \/ Occurs(resp'.request.cmd, queue)]_vars

\* A body whose "type" is not a string was answered with an error while a
\* serving session was waiting for a read and another command was queued.
C14_Witness ==
    /\ resp.op = "post_command"
    /\ resp.request.form = "object"
    /\ resp.request.has_type /\ resp.request.has_value
    /\ ~resp.request.type_is_str
    /\ resp.status = 500
    /\ hpc = "wait_read"
    /\ Len(queue) = 1
    /\ ~Occurs(resp.request.cmd, queue)

\* C15: GET /api/command returns the commands of the queue and their
\* number, GET /api/metrics returns the cached reading, and neither changes
\* the queue, the cache or anything else of the hub.
C15_GetIsReadOnly ==
    /\ [][GetCommandStep =>
              /\ resp'.commands = queue
              /\ resp'.count = Len(queue)
              /\ UNCHANGED <<hubCmdVars, hubTelVars>>]_vars
    /\ [][GetMetricsStep =>
              /\ resp'.metrics = metrics
              /\ UNCHANGED <<hubCmdVars, hubTelVars>>]_vars

\* GET /api/command during a serving session: one command is staged and
\* waits for its read, one is still queued, and the response lists that one.
C15_Witness ==
    /\ resp.op = "get_command"
    /\ resp.count = 1
    /\ resp.commands = queue
    /\ Len(queue) = 1
    /\ hpc = "wait_read"
    /\ Len(popped) = 1
    /\ up

\* The serving loop creates and starts the peripheral.
SessionStart == hpc = "starting" /\ hpc' = "settle"

\* C16: the serving loop leaves its wait and starts a peripheral only with
\* a command in the queue and with the peripheral of the session before it
\* stopped; the peripheral is up only inside the one session the loop runs.
C16_OneSessionWhenPending ==
    /\ []((hpc = "idle" /\ ready) => queue # <<>>)
    /\ [](hpc = "starting" => (queue # <<>> /\ ~up))
    /\ [][SessionStart => (~up /\ up' /\ queue # <<>>)]_vars
    /\ [](up => hpc \in {"settle", "wait_read", "wait_eof", "stopping"})

\* A second session has started: both commands were posted, the session
\* before this one removed the first, this one has removed nothing yet.
C16_Witness ==
    /\ hpc = "settle"
    /\ up
    /\ posted = 2
    /\ Len(queue) = 1
    /\ popped = <<>>
    /\ offered = queue

\* C17: a non-empty queue with no serving session has the ready event set
\* (so that the serving loop leaves its wait and offers the commands).
C17_AppendWakesServing ==
    (hpc = "idle" /\ queue # <<>>) => ready

\* C18: while send_json waits for its event, the event is set or the
\* advertise task can still set it (it has a connection or can get one); a
\* cycle for which this fails never reaches deep sleep.
C18_CycleReachesSleep ==
    npc = "await_ack" => (event \/ adv \in {"advertising", "connected"})

\* read_temperature_loop: deepsleep(state_manager.get('deepsleep_duration', 10) * 1000)
SleepInterval == state.deepsleep_duration

\* C19: the interval the node sleeps for is the deepsleep_duration a
\* restart would load from the file.
C19_SleepIntervalIsPersisted ==
    npc = "sleep" => SleepInterval = Persisted(file).deepsleep_duration

\* C20: the discovery loop and the administrative API are never ended by
\* what happens in the serving loop.
C20_LoopsIndependent ==
    running /\ dpc # "cancelled"

\* C21: the deepsleep_duration a restart would load is a positive integer.
C21_SleepIntervalPositiveInteger ==
    /\ Persisted(file).deepsleep_duration.kind = "int"
    /\ Persisted(file).deepsleep_duration.n > 0

\* Steps of the telemetry session.
PublishStep == npc = "publish" /\ npc' = "await_ack"

AckStep == npc = "await_ack" /\ npc' # "await_ack"

\* The peer's disconnect is observed: _advertise_task sets the event.
DisconnectObserved == ~event /\ event'

C23_SessionsSequential ==
    npc \in {"scan", "rescan", "drain", "drained"} =>
        (adv = "closed" /\ event /\ temp_char.written)

\* The node is in its drain, has handled a command, and the telemetry
\* session is over.
C23_Witness ==
    /\ npc = "drain"
    /\ handled # <<>>
    /\ adv = "closed"
    /\ up

\* C27: every value passed to the drain's callback is a command that was
\* appended to the hub queue; in particular it is never the placeholder.
C27_OnlyQueuedCommandsHandled ==
    \A i \in DOMAIN handled :
        /\ handled[i] # Placeholder
        /\ handled[i] \in PostCmds

\* C30: the faucet_closed of the published reading is the negation of the
\* level of the valve pin.
C30_FaucetClosedIsPinLevel ==
    npc = "await_ack" => temp_char.faucet_closed = ~pin

\* C26: a successful read of the node's reading puts the reading's solar,
\* tank and faucet_closed into the cache whatever it held; every other step
\* (a failed or undecodable read among them) leaves the cache as it was;
\* so the cache holds the zero-valued default or a reading that was read.
C26_CacheSingleSlot ==
    /\ [][TelemetryReadStep =>
              /\ metrics'.solar = temp_char.solar
              /\ metrics'.tank = temp_char.tank
              /\ metrics'.faucet_closed = temp_char.faucet_closed]_vars
    /\ [][~TelemetryReadStep => metrics' = metrics]_vars
    /\ [](\/ metrics = DefaultMetrics
          \/ /\ metrics.solar \in Temps
             /\ metrics.tank \in Temps
             /\ metrics.faucet_closed = ~(metrics.solar.n + 50 > metrics.tank.n))

\* GET /api/metrics returned the reading with solar 20.0; since then the
\* hub has read the reading with solar 20.5, and the cache holds that one.
C26_Witness ==
    /\ resp.op = "get_metrics"
    /\ resp.metrics.solar = F(2000)
    /\ metrics.solar = F(2050)
    /\ metrics.tank = F(2050)
    /\ metrics.faucet_closed = FALSE
    /\ dpc = "scan"

\* C28: a serving session that has started its peripheral ends: the
\* peripheral is stopped and the loop is back at its wait (or the stop has
\* raised).
C28_SessionEnds ==
    (hpc = "settle") ~> (hpc \in {"idle", "raised"})

\* The end-of-stream marker replaces the staged value.
MarkerStaged == char' = Eof /\ char # Eof

\* C29: the marker is staged in the step that reads the last command the
\* session popped, with the queue empty and every popped command staged and
\* read before; the session goes on to stop its peripheral only from the
\* wait for the marker's read.
C29_MarkerAfterAllRead ==
    /\ [][MarkerStaged =>
              /\ hpc = "wait_read"
              /\ queue = <<>>
              /\ popped' = popped]_vars
    /\ [][(hpc # "stopping" /\ hpc' = "stopping") =>
              (hpc = "wait_eof" /\ char = Eof)]_vars

\* C24: a value that cannot be decoded does not end the drain: after it the
\* node is still in its drain loop (at the next read, or leaving it on the
\* marker).
C24_DecodeFailureContinues ==
    [][(npc = "drain" /\ op' = SessionError("decode") /\ npc' # npc) =>
           npc' \in {"drain", "drained"}]_vars

\* C25: after a failure in the command session (connect, service discovery
\* or mid-drain) the node makes no further connection to the hub in the
\* wake cycle: it only ends its scan and goes to sleep.
C25_NoRetryInCycle ==
    [][npc = "rescan" => npc' \in {"rescan", "sleep"}]_vars

====
